---- MODULE Spec2Model ----
(***************************************************************************)
(* A model of src/src/App.tsx (TaDa Search): the multi-term line matcher   *)
(* findMatches and the batched folder pipeline handleFolderSelect.         *)
(*                                                                         *)
(* Strings of the program are sequences of one-character strings, so that  *)
(* split, trim, toLowerCase and the regular-expression scans are computed. *)
(* MIME types and file names are sequences of tokens (the pieces between   *)
(* "/", "." and "-"), so that includes('text') and endsWith('.txt') are    *)
(* computed as well.                                                       *)
(***************************************************************************)
EXTENDS Integers, Sequences, FiniteSets, TLC

VARIABLES searchTerms, searchOptions, results, isSearching, error,
          processedFiles, totalFiles, currentPage, runs,
          matchText, matchOut, csv

vars == <<searchTerms, searchOptions, results, isSearching, error,
          processedFiles, totalFiles, currentPage, runs,
          matchText, matchOut, csv>>

\* ------------------------------------------------------------------ bounds
MaxLines == 5
MaxTerms == 2
MaxPadExtra == 1
MaxOrderLines == 2
MaxPages == 3
MaxOverlap == 2

\* ---------------------------------------------------------- program constants
BATCH_SIZE == 50
ITEMS_PER_PAGE == 50
SizeLimit == 50 * 1024 * 1024

\* ------------------------------------------------------------------ strings
NL == "\n"
SP == " "
STAR == "*"

Max(a, b) == IF a >= b THEN a ELSE b
Min(a, b) == IF a <= b THEN a ELSE b

LowerChar(c) ==
    CASE c = "A" -> "a" [] c = "B" -> "b" [] c = "P" -> "p" [] c = "E" -> "e"
      [] OTHER -> c

toLowerCase(s) == [k \in 1..Len(s) |-> LowerChar(s[k])]

\* \w of the regular expressions: letters, digits and "_".
IsWordChar(c) == c \notin {" ", "\n", "*", "(", ":", "[", "]", ",", "\""}

IsSpace(c) == c \in {SP, NL}

RECURSIVE TrimStart(_)
TrimStart(s) ==
    IF s # <<>> /\ IsSpace(Head(s)) THEN TrimStart(Tail(s)) ELSE s

RECURSIVE TrimEnd(_)
TrimEnd(s) ==
    IF s # <<>> /\ IsSpace(s[Len(s)]) THEN TrimEnd(SubSeq(s, 1, Len(s) - 1)) ELSE s

trim(s) == TrimEnd(TrimStart(s))

\* text.split('\n'): always at least one line; "a\n" gives <<"a", "">>.
RECURSIVE SplitFrom(_, _)
SplitFrom(s, p) ==
    LET breaks == {q \in p..Len(s) : s[q] = NL}
    IN  IF breaks = {} THEN <<SubSeq(s, p, Len(s))>>
        ELSE LET q == CHOOSE b \in breaks : \A other \in breaks : b <= other
             IN  <<SubSeq(s, p, q - 1)>> \o SplitFrom(s, q + 1)

split(s) == SplitFrom(s, 1)

\* lines.join('\n')
RECURSIVE join(_)
join(ls) ==
    IF ls = <<>> THEN <<>>
    ELSE IF Len(ls) = 1 THEN ls[1]
    ELSE ls[1] \o <<NL>> \o join(Tail(ls))

\* lines.slice(from, to) with 0-based from (inclusive) and to (exclusive).
slice(ls, from, to) == SubSeq(ls, from + 1, Min(to, Len(ls)))

\* ------------------------------------------------------- regular expressions
\* new RegExp(source, flags) throws a SyntaxError on an unterminated group.
\* The term alphabet holds "(" and no ")", so any "(" is unterminated.
RegExpThrows(source) == \E k \in 1..Len(source) : source[k] = "("

\* \b at the gap after position k of s (k = 0 is the start of the string).
WordBoundary(s, k) ==
    LET before == k >= 1 /\ k <= Len(s) /\ IsWordChar(s[k])
        after  == k + 1 >= 1 /\ k + 1 <= Len(s) /\ IsWordChar(s[k + 1])
    IN  before # after

\* Does the pattern (a literal term, optionally wrapped in \b...\b) match s at p?
MatchAt(s, p, term, wholeWord, ignoreCase) ==
    /\ p + Len(term) - 1 <= Len(s)
    /\ \A k \in 1..Len(term) :
         IF ignoreCase THEN LowerChar(s[p + k - 1]) = LowerChar(term[k])
                       ELSE s[p + k - 1] = term[k]
    /\ wholeWord => /\ WordBoundary(s, p - 1)
                    /\ WordBoundary(s, p + Len(term) - 1)

\* regex.exec from position p: where the leftmost match at or after p starts,
\* 0 if there is none.
nextMatch(s, p, term, wholeWord, ignoreCase) ==
    LET starts == {q \in p..Len(s) : MatchAt(s, q, term, wholeWord, ignoreCase)}
    IN  IF starts = {} THEN 0
        ELSE CHOOSE q \in starts : \A other \in starts : q <= other

\* str.match(regex)?.length || 0 with the g flag: leftmost, non-overlapping.
RECURSIVE CountFrom(_, _, _, _, _)
CountFrom(s, p, term, wholeWord, ignoreCase) ==
    LET q == nextMatch(s, p, term, wholeWord, ignoreCase)
    IN  IF q = 0 THEN 0
        ELSE 1 + CountFrom(s, q + Len(term), term, wholeWord, ignoreCase)

MatchCountOf(s, term, wholeWord, ignoreCase) ==
    CountFrom(s, 1, term, wholeWord, ignoreCase)

\* str.replace(regex, '**$1**') with the g flag.
RECURSIVE ReplaceFrom(_, _, _, _, _)
ReplaceFrom(s, p, term, wholeWord, ignoreCase) ==
    LET q == nextMatch(s, p, term, wholeWord, ignoreCase)
    IN  IF q = 0 THEN SubSeq(s, p, Len(s))
        ELSE SubSeq(s, p, q - 1)
             \o <<STAR, STAR>> \o SubSeq(s, q, q + Len(term) - 1) \o <<STAR, STAR>>
             \o ReplaceFrom(s, q + Len(term), term, wholeWord, ignoreCase)

replace(s, term, wholeWord, ignoreCase) ==
    ReplaceFrom(s, 1, term, wholeWord, ignoreCase)

\* ---------------------------------------------------------------- findMatches
\* One term's count on one line (the body of searchTerms.map in findMatches).
TermCount(line, term, opts) ==
    LET lineToSearch == IF opts.caseSensitive THEN line ELSE toLowerCase(line)
        termToFind   == IF opts.caseSensitive THEN term ELSE toLowerCase(term)
    IN  MatchCountOf(lineToSearch, termToFind, opts.wholeWord, ~opts.caseSensitive)

\* The slip of counting for the first term alone.
termMatches_first(line, terms, opts) == <<TermCount(line, terms[1], opts)>>

termMatches(line, terms, opts) ==
    [t \in 1..Len(terms) |-> TermCount(line, terms[t], opts)]

\* The slip of deciding "all" like "any".
isMatch_some(counts, opts) == \E t \in 1..Len(counts) : counts[t] > 0

\* termMatches.every(count => count > 0) or termMatches.some(count => count > 0)
isMatch(counts, opts) ==
    IF opts.matchType = "all"
    THEN \A t \in 1..Len(counts) : counts[t] > 0
    ELSE \E t \in 1..Len(counts) : counts[t] > 0

\* termMatches.reduce((sum, count) => sum + count, 0)
RECURSIVE SumSeq(_)
SumSeq(ns) == IF ns = <<>> THEN 0 ELSE Head(ns) + SumSeq(Tail(ns))

\* The slip of counting the terms that hit, not their hits.
occurrencesOf_terms(counts) == Cardinality({t \in 1..Len(counts) : counts[t] > 0})

occurrencesOf(counts) == SumSeq(counts)

contextStart(index) == Max(0, index - 2)

\* The slip of an exclusive end taken for an inclusive one.
contextEnd_short(lines, index) == Min(Len(lines), index + 2)

contextEnd(lines, index) == Min(Len(lines), index + 3)

contextOf(lines, index) ==
    join(slice(lines, contextStart(index), contextEnd(lines, index)))

\* searchTerms.forEach(term => highlightedContext = highlightedContext.replace(...))
RECURSIVE highlight(_, _, _)
highlight(context, terms, opts) ==
    IF terms = <<>> THEN context
    ELSE highlight(replace(context, Head(terms), opts.wholeWord, ~opts.caseSensitive),
                   Tail(terms), opts)

\* The record pushed for the line at 0-based index, counts being its termMatches.
matchRecord(lines, index, counts, terms, opts) ==
    [text        |-> trim(lines[index + 1]),
     lineNumber  |-> index + 1,
     context     |-> trim(highlight(contextOf(lines, index), terms, opts)),
     occurrences |-> occurrencesOf(counts)]

\* One round of lines.forEach: the line's record, if the line is a match.
lineMatches(lines, index, terms, opts) ==
    LET counts == termMatches(lines[index + 1], terms, opts)
    IN  IF isMatch(counts, opts)
        THEN <<matchRecord(lines, index, counts, terms, opts)>>
        ELSE <<>>

RECURSIVE matchesFrom(_, _, _, _)
matchesFrom(lines, index, terms, opts) ==
    IF index >= Len(lines) THEN <<>>
    ELSE lineMatches(lines, index, terms, opts)
         \o matchesFrom(lines, index + 1, terms, opts)

\* findMatches throws when a RegExp cannot be built; text.split always yields
\* a line, so the first line already builds every term's RegExp.
findMatchesThrows(text, terms, opts) ==
    /\ Len(terms) > 0
    /\ \E t \in 1..Len(terms) :
         RegExpThrows(IF opts.caseSensitive THEN terms[t] ELSE toLowerCase(terms[t]))

findMatches(text, terms, opts) ==
    IF Len(terms) = 0 THEN <<>>
    ELSE matchesFrom(split(text), 0, terms, opts)

\* ------------------------------------------------------------------- files
\* A File of the submitted FileList: name and type are token sequences, size is
\* in bytes, readable tells whether the decoder (or the raw read) succeeds,
\* pages is the PDF's pages and content the text of a Word or text file.
PDF  == <<"application", "pdf">>
DOCX == <<"application", "vnd", "openxmlformats", "officedocument",
          "wordprocessingml", "document">>
DOC  == <<"application", "msword">>

includes(type, token) == \E k \in 1..Len(type) : type[k] = token

endsWith(name, ext) == Len(name) >= 2 /\ name[Len(name)] = ext

Undefined == "undefined"
Null == "null"

\* pdf.getPage(i) / page.getTextContent() of one page: the items joined by ' ',
\* under the header `Page ${i}:\n`, or the placeholder when the page fails.
pageChunk(i, page) ==
    IF page.fails
    THEN <<"P", "a", "g", "e", " ", ToString(i), ":", " ">>
         \o <<"[", "E", "r", "r", "o", "r", " ">>
         \o <<"e", "x", "t", "r", "a", "c", "t", "i", "n", "g", " ">>
         \o <<"t", "e", "x", "t", "]">>
    ELSE <<"P", "a", "g", "e", " ", ToString(i), ":", NL>> \o page.text

RECURSIVE joinChunks(_)
joinChunks(chunks) ==
    IF chunks = <<>> THEN <<>>
    ELSE IF Len(chunks) = 1 THEN chunks[1]
    ELSE chunks[1] \o <<NL, NL>> \o joinChunks(Tail(chunks))

\* The slip of a page failure that fails the document.
extractTextFromPDF_strict(file) ==
    IF ~file.readable \/ \E i \in 1..Len(file.pages) : file.pages[i].fails
    THEN [ok |-> FALSE, text |-> <<>>, error |-> "PDF processing failed"]
    ELSE [ok |-> TRUE,
          text |-> joinChunks([i \in 1..Len(file.pages) |-> pageChunk(i, file.pages[i])]),
          error |-> Undefined]

\* extractTextFromPDF: [ok, text] or [~ok, message].
extractTextFromPDF(file) ==
    IF ~file.readable
    THEN [ok |-> FALSE, text |-> <<>>, error |-> "PDF processing failed"]
    ELSE [ok |-> TRUE,
          text |-> joinChunks([i \in 1..Len(file.pages) |-> pageChunk(i, file.pages[i])]),
          error |-> Undefined]

extractTextFromWord(file) ==
    IF ~file.readable
    THEN [ok |-> FALSE, text |-> <<>>,
          error |-> "Failed to extract text from Word document"]
    ELSE [ok |-> TRUE, text |-> file.content, error |-> Undefined]

\* file.text()
fileText(file) ==
    IF ~file.readable
    THEN [ok |-> FALSE, text |-> <<>>, error |-> "The file could not be read"]
    ELSE [ok |-> TRUE, text |-> file.content, error |-> Undefined]

\* The branch of the type dispatch a file takes (lines 287-302).
route(file) ==
    IF file.type = PDF THEN "pdf"
    ELSE IF file.type = DOCX \/ file.type = DOC THEN "word"
    ELSE IF \/ includes(file.type, "text")
            \/ endsWith(file.name, "txt")
            \/ endsWith(file.name, "md") THEN "text"
    ELSE "unsupported"

\* The slip of checking the size after the type dispatch.
tooLarge_afterDispatch(file) == file.size > SizeLimit /\ route(file) # "unsupported"

tooLarge(file) == file.size > SizeLimit

extract(file) ==
    CASE route(file) = "pdf"  -> extractTextFromPDF(file)
      [] route(file) = "word" -> extractTextFromWord(file)
      [] OTHER                -> fileText(file)

\* let result = {...}: the record a per-file task starts from.
initialResult(file) ==
    [fileName         |-> file.name,
     filePath         |-> IF file.webkitRelativePath # <<>>
                          THEN file.webkitRelativePath ELSE file.name,
     fileType         |-> IF file.type # <<>> THEN file.type ELSE <<"unknown">>,
     status           |-> "success",
     error            |-> Undefined,
     matches          |-> <<>>,
     matchCount       |-> 0,
     totalOccurrences |-> 0]

\* The catch block of the per-file task.
errorResult(file, message) ==
    [initialResult(file) EXCEPT !.status = "error", !.error = message]

unsupportedResult(file) ==
    [initialResult(file) EXCEPT !.status = "unsupported",
                                !.error = "Unsupported file type"]

RECURSIVE SumOccurrences(_)
SumOccurrences(ms) ==
    IF ms = <<>> THEN 0 ELSE Head(ms).occurrences + SumOccurrences(Tail(ms))

\* The slip of counting matched lines as occurrences.
successResult_lines(file, matches) ==
    [initialResult(file) EXCEPT !.matches = matches,
                                !.matchCount = Len(matches),
                                !.totalOccurrences = Len(matches)]

\* The task's continuation once the text is there (lines 304-309).
successResult(file, matches) ==
    [initialResult(file) EXCEPT !.matches = matches,
                                !.matchCount = Len(matches),
                                !.totalOccurrences = SumOccurrences(matches)]

\* Does the task reach an await (an extraction) before it returns?
startsExtraction(file) == ~tooLarge(file) /\ route(file) # "unsupported"

\* The result of a task that returns without awaiting.
immediateResult(file) ==
    IF tooLarge(file) THEN errorResult(file, "File too large (>50MB)")
    ELSE unsupportedResult(file)

\* The slip of a catch that swallows a matching error.
settledResult_swallow(file, terms, opts) ==
    LET got == extract(file)
    IN  IF ~got.ok THEN errorResult(file, got.error)
        ELSE IF findMatchesThrows(got.text, terms, opts)
             THEN initialResult(file)
             ELSE successResult(file, findMatches(got.text, terms, opts))

\* The slip of a catch that keeps the matches found before the failure.
settledResult_partial(file, terms, opts) ==
    LET got == extract(file)
        sound == SelectSeq(terms, LAMBDA t : ~RegExpThrows(t))
    IN  IF ~got.ok THEN errorResult(file, got.error)
        ELSE IF findMatchesThrows(got.text, terms, opts)
             THEN [errorResult(file, "Invalid regular expression")
                     EXCEPT !.matches = findMatches(got.text, sound, opts)]
             ELSE successResult(file, findMatches(got.text, terms, opts))

\* The result of a task whose extraction has settled.
settledResult(file, terms, opts) ==
    LET got == extract(file)
    IN  IF ~got.ok THEN errorResult(file, got.error)
        ELSE IF findMatchesThrows(got.text, terms, opts)
             THEN errorResult(file, "Invalid regular expression")
             ELSE successResult(file, findMatches(got.text, terms, opts))

\* ------------------------------------------------------------- ResultStore
\* [...].sort((a, b) => b.matchCount - a.matchCount): a stable sort, descending.
\* The records with the most matches come first, then those with one match
\* less, and so on down to zero; records with as many matches keep their order.
maxMatchCount(rs) ==
    LET counts == {rs[k].matchCount : k \in 1..Len(rs)}
    IN  IF counts = {} THEN 0 ELSE CHOOSE m \in counts : \A c \in counts : c <= m

RECURSIVE sortedFrom(_, _)
sortedFrom(rs, count) ==
    IF count < 0 THEN <<>>
    ELSE SelectSeq(rs, LAMBDA record : record.matchCount = count)
         \o sortedFrom(rs, count - 1)

\* The slip of a sort that lets the records without a match go.
sortByMatchCount_matching(rs) ==
    sortedFrom(SelectSeq(rs, LAMBDA record : record.matchCount > 0),
               maxMatchCount(rs))

sortByMatchCount(rs) == sortedFrom(rs, maxMatchCount(rs))

\* The slip of appending without the re-sort.
mergeResults_unsorted(prev, batchResults) == prev \o batchResults

\* setResults(prev => [...prev, ...batchResults].sort(...))
mergeResults(prev, batchResults) == sortByMatchCount(prev \o batchResults)

\* Math.ceil(n / size)
ceilDiv(n, size) == (n + size - 1) \div size

totalPages == ceilDiv(Len(results), ITEMS_PER_PAGE)

\* The slip of a page that runs one record into the next page.
pageOf_overlap(rs, page) ==
    LET startIndex == (page - 1) * ITEMS_PER_PAGE
        endIndex   == startIndex + ITEMS_PER_PAGE + 1
    IN  slice(rs, startIndex, endIndex)

\* The slice the memo computes for a page.
pageOf(rs, page) ==
    LET startIndex == (page - 1) * ITEMS_PER_PAGE
        endIndex   == startIndex + ITEMS_PER_PAGE
    IN  slice(rs, startIndex, endIndex)

paginatedResults == pageOf(results, currentPage)

\* ------------------------------------------------------- handleFolderSelect
batchStartOf(batchIndex) == batchIndex * BATCH_SIZE

\* The slip of ending a batch one file early.
batchEndOf_short(batchIndex, n) ==
    Min(batchStartOf(batchIndex) + BATCH_SIZE - 1, n)

batchEndOf(batchIndex, n) == Min(batchStartOf(batchIndex) + BATCH_SIZE, n)

\* fileArray.slice(batchStart, batchEnd)
batchOf(files, batchIndex) ==
    slice(files, batchStartOf(batchIndex), batchEndOf(batchIndex, Len(files)))

\* batch.map(async file => ...): every task of the batch runs up to its first
\* await; a task without an await has already returned its result.
launchBatch(run, batchIndex) ==
    LET batch == batchOf(run.files, batchIndex)
        idx   == 1..Len(batch)
        large == {k \in idx : tooLarge(batch[k])}
        unsup == {k \in idx : ~tooLarge(batch[k]) /\ route(batch[k]) = "unsupported"}
        await == {k \in idx : startsExtraction(batch[k])}
    IN  [run EXCEPT
           !.batchIndex   = batchIndex,
           !.pc           = "await",
           !.batchResults = [k \in idx |-> IF k \in await THEN initialResult(batch[k])
                                           ELSE immediateResult(batch[k])],
           !.pending      = await,
           !.extracted    = @ \cup {batchStartOf(batchIndex) + k : k \in await},
           !.started      = batchEndOf(batchIndex, Len(run.files)),
           !.stats.failedFiles      = @ + Cardinality(large),
           !.stats.unsupportedFiles = @ + Cardinality(unsup)]

newStats(n) ==
    [totalFiles |-> n, processedFiles |-> 0, successfulFiles |-> 0,
     failedFiles |-> 0, unsupportedFiles |-> 0, totalMatches |-> 0,
     memoryUsage |-> 0]

\* What a file's task returns once it has run: fixed by the file and by the
\* terms and options the handler closed over.
taskResult(file, terms, opts) ==
    IF startsExtraction(file) THEN settledResult(file, terms, opts)
    ELSE immediateResult(file)

newRun(files, terms, opts) ==
    [files |-> files, terms |-> terms, opts |-> opts, stats |-> newStats(Len(files)),
     batchIndex |-> 0, pc |-> "start", batchResults |-> <<>>, pending |-> {},
     extracted |-> {}, started |-> 0,
     outcome |-> [i \in 1..Len(files) |-> taskResult(files[i], terms, opts)]]

\* A run is over when its handler returned: its loop ended or its catch block
\* ran. A run whose await was rejected has still to run its catch block.
isActive(run) == run.pc \notin {"done", "failed"}

RECURSIVE activeRuns(_)
activeRuns(rs) ==
    IF rs = <<>> THEN <<>>
    ELSE (IF isActive(Head(rs)) THEN <<Head(rs)>> ELSE <<>>) \o activeRuns(Tail(rs))

\* The handler up to its first await: the state resets and the first batch's
\* launch, or the finally block at once when there is no file.
Submit(files) ==
    /\ Len(searchTerms) # 0
    /\ LET run == newRun(files, searchTerms, searchOptions)
           batches == ceilDiv(Len(files), BATCH_SIZE)
       IN  /\ error' = Null
           /\ results' = <<>>
           /\ processedFiles' = 0
           /\ totalFiles' = Len(files)
           /\ IF batches = 0
              THEN /\ isSearching' = FALSE
                   /\ runs' = Append(activeRuns(runs), [run EXCEPT !.pc = "done"])
              ELSE /\ isSearching' = TRUE
                   /\ runs' = Append(activeRuns(runs), launchBatch(run, 0))
    /\ UNCHANGED <<searchTerms, searchOptions, currentPage, matchText, matchOut, csv>>

\* The slip of a task that puts its own record into the store.
Settle_merges(r, k) ==
    /\ r \in 1..Len(runs)
    /\ runs[r].pc \in {"await", "rejected", "failed"}
    /\ k \in runs[r].pending
    /\ LET run == runs[r]
           res == run.outcome[batchStartOf(run.batchIndex) + k]
       IN  /\ runs' = [runs EXCEPT ![r] =
                [run EXCEPT !.pending = @ \ {k}, !.batchResults[k] = res]]
           /\ results' = mergeResults(results, <<res>>)
    /\ UNCHANGED <<searchTerms, searchOptions, isSearching, error,
                   processedFiles, totalFiles, currentPage, matchText, matchOut,
                   csv>>

\* A per-file task resumes after its extraction settled and runs to its return;
\* the tasks of a batch whose Promise.all is rejected go on to their return as
\* well, before and after the handler's catch block.
Settle(r, k) ==
    /\ r \in 1..Len(runs)
    /\ runs[r].pc \in {"await", "rejected", "failed"}
    /\ k \in runs[r].pending
    /\ LET run  == runs[r]
           res  == run.outcome[batchStartOf(run.batchIndex) + k]
       IN  runs' = [runs EXCEPT ![r] =
             [run EXCEPT
                !.pending = @ \ {k},
                !.batchResults[k] = res,
                !.stats.successfulFiles = IF res.status = "success" THEN @ + 1 ELSE @,
                !.stats.totalMatches    = IF res.status = "success"
                                          THEN @ + res.totalOccurrences ELSE @,
                !.stats.failedFiles     = IF res.status = "error" THEN @ + 1 ELSE @]]
    /\ UNCHANGED <<searchTerms, searchOptions, results, isSearching, error,
                   processedFiles, totalFiles, currentPage, matchText, matchOut, csv>>

\* The slip of merging without waiting for the whole batch.
BatchSettled_early(r) ==
    /\ r \in 1..Len(runs)
    /\ runs[r].pc = "await"
    /\ LET run == runs[r]
           done == run.stats.processedFiles + Len(run.batchResults)
       IN  /\ results' = mergeResults(results, run.batchResults)
           /\ processedFiles' = done
           /\ runs' = [runs EXCEPT ![r] =
                [run EXCEPT !.stats.processedFiles = done, !.pc = "pause"]]
    /\ UNCHANGED <<searchTerms, searchOptions, isSearching, error, totalFiles,
                   currentPage, matchText, matchOut, csv>>

\* Promise.all resolved: the merge, the counters, then the 100 ms pause.
BatchSettled(r) ==
    /\ r \in 1..Len(runs)
    /\ runs[r].pc = "await"
    /\ runs[r].pending = {}
    /\ LET run == runs[r]
           done == run.stats.processedFiles + Len(run.batchResults)
       IN  /\ results' = mergeResults(results, run.batchResults)
           /\ processedFiles' = done
           /\ runs' = [runs EXCEPT ![r] =
                [run EXCEPT !.stats.processedFiles = done, !.pc = "pause"]]
    /\ UNCHANGED <<searchTerms, searchOptions, isSearching, error, totalFiles,
                   currentPage, matchText, matchOut, csv>>

\* The slip of a loop that never leaves its last pause.
Resume_stall(r) ==
    /\ r \in 1..Len(runs)
    /\ runs[r].pc = "pause"
    /\ runs[r].batchIndex + 1 < ceilDiv(Len(runs[r].files), BATCH_SIZE)
    /\ runs' = [runs EXCEPT ![r] = launchBatch(runs[r], runs[r].batchIndex + 1)]
    /\ UNCHANGED <<searchTerms, searchOptions, results, isSearching, error,
                   processedFiles, totalFiles, currentPage, matchText, matchOut,
                   csv>>

\* The pause is over: the next batch is launched, or the loop ends and the
\* finally block clears the searching flag.
Resume(r) ==
    /\ r \in 1..Len(runs)
    /\ runs[r].pc = "pause"
    /\ LET run == runs[r]
           batches == ceilDiv(Len(run.files), BATCH_SIZE)
       IN  IF run.batchIndex + 1 < batches
           THEN /\ runs' = [runs EXCEPT ![r] = launchBatch(run, run.batchIndex + 1)]
                /\ UNCHANGED isSearching
           ELSE /\ runs' = [runs EXCEPT ![r] = [run EXCEPT !.pc = "done"]]
                /\ isSearching' = FALSE
    /\ UNCHANGED <<searchTerms, searchOptions, results, error, processedFiles,
                   totalFiles, currentPage, matchText, matchOut, csv>>

GenericError == "An error occurred while searching the files."

\* ---------------------------------------------------------- run-level failure
\* A failure escapes the per-file isolation when a host call outside a task's
\* own try block throws: the log at the task's start (line 268), the log of
\* the task's catch block (line 316), or a call of the coordinating path after
\* the merge (lines 330-334). A task that rejects makes Promise.all reject;
\* the handler resumes from its await (line 266) in a later step, in its catch
\* block. Between the two the run is at pc = "rejected".

\* batch.map(async file => ...) when the first log of the tasks K throws: those
\* tasks reject before they read their file or count themselves in the
\* statistics; the other tasks run as in launchBatch.
launchRejecting(run, batchIndex, K) ==
    LET batch == batchOf(run.files, batchIndex)
        idx   == 1..Len(batch)
        large == {k \in idx \ K : tooLarge(batch[k])}
        unsup == {k \in idx \ K : ~tooLarge(batch[k]) /\ route(batch[k]) = "unsupported"}
        await == {k \in idx \ K : startsExtraction(batch[k])}
    IN  [run EXCEPT
           !.batchIndex   = batchIndex,
           !.pc           = "rejected",
           !.batchResults = [k \in idx |-> IF k \in await \cup K
                                           THEN initialResult(batch[k])
                                           ELSE immediateResult(batch[k])],
           !.pending      = await,
           !.extracted    = @ \cup {batchStartOf(batchIndex) + k : k \in await},
           !.started      = batchEndOf(batchIndex, Len(run.files)),
           !.stats.failedFiles      = @ + Cardinality(large),
           !.stats.unsupportedFiles = @ + Cardinality(unsup)]

\* The handler up to its first await when tasks K of the first batch reject.
SubmitRejected(files, K) ==
    /\ Len(searchTerms) # 0
    /\ K # {}
    /\ K \subseteq 1..Len(batchOf(files, 0))
    /\ error' = Null
    /\ results' = <<>>
    /\ processedFiles' = 0
    /\ totalFiles' = Len(files)
    /\ isSearching' = TRUE
    /\ runs' = Append(activeRuns(runs),
                      launchRejecting(newRun(files, searchTerms, searchOptions), 0, K))
    /\ UNCHANGED <<searchTerms, searchOptions, currentPage, matchText, matchOut, csv>>

\* The pause is over and tasks K of the next batch reject at their launch.
ResumeRejected(r, K) ==
    /\ r \in 1..Len(runs)
    /\ runs[r].pc = "pause"
    /\ runs[r].batchIndex + 1 < ceilDiv(Len(runs[r].files), BATCH_SIZE)
    /\ K # {}
    /\ K \subseteq 1..Len(batchOf(runs[r].files, runs[r].batchIndex + 1))
    /\ runs' = [runs EXCEPT ![r] = launchRejecting(runs[r], runs[r].batchIndex + 1, K)]
    /\ UNCHANGED <<searchTerms, searchOptions, results, isSearching, error,
                   processedFiles, totalFiles, currentPage, matchText, matchOut,
                   csv>>

\* The extraction of task k settled, the task's processing failed and the log
\* of its catch block (line 316) throws, before the task counts itself: the
\* task rejects, and with it Promise.all.
SettleRejected(r, k) ==
    /\ r \in 1..Len(runs)
    /\ runs[r].pc = "await"
    /\ k \in runs[r].pending
    /\ runs[r].outcome[batchStartOf(runs[r].batchIndex) + k].status = "error"
    /\ runs' = [runs EXCEPT ![r] = [runs[r] EXCEPT !.pc = "rejected",
                                                   !.pending = @ \ {k}]]
    /\ UNCHANGED <<searchTerms, searchOptions, results, isSearching, error,
                   processedFiles, totalFiles, currentPage, matchText, matchOut,
                   csv>>

\* Promise.all resolved and the batch is merged, then the timer of the pause
\* cannot be set (line 334): the awaited promise is rejected.
TimerRejected(r) ==
    /\ r \in 1..Len(runs)
    /\ runs[r].pc = "await"
    /\ runs[r].pending = {}
    /\ LET run == runs[r]
           done == run.stats.processedFiles + Len(run.batchResults)
       IN  /\ results' = mergeResults(results, run.batchResults)
           /\ processedFiles' = done
           /\ runs' = [runs EXCEPT ![r] =
                [run EXCEPT !.stats.processedFiles = done, !.pc = "rejected"]]
    /\ UNCHANGED <<searchTerms, searchOptions, isSearching, error, totalFiles,
                   currentPage, matchText, matchOut, csv>>

\* The slip of a catch block that forgets to set the error.
catchBlock_silent(logged) ==
    /\ error' = error
    /\ isSearching' = FALSE

\* The catch and finally blocks of the handler (lines 337-345): the log of
\* line 338 comes before setError, so if it throws too (logged = FALSE) the
\* error is not set; the finally block clears the searching flag either way.
catchBlock(logged) ==
    /\ error' = IF logged THEN GenericError ELSE error
    /\ isSearching' = FALSE

\* The handler resumes from the await that threw: catch, finally, return.
CatchFinally(r, logged) ==
    /\ r \in 1..Len(runs)
    /\ runs[r].pc = "rejected"
    /\ runs' = [runs EXCEPT ![r].pc = "failed"]
    /\ catchBlock(logged)
    /\ UNCHANGED <<searchTerms, searchOptions, results, processedFiles,
                   totalFiles, currentPage, matchText, matchOut, csv>>

\* Promise.all resolved and the batch is merged, then the logging of the
\* progress throws (lines 330-331): no await lies between the merge and the
\* catch block, they are one synchronous stretch.
MergeFailure(r, logged) ==
    /\ r \in 1..Len(runs)
    /\ runs[r].pc = "await"
    /\ runs[r].pending = {}
    /\ LET run == runs[r]
           done == run.stats.processedFiles + Len(run.batchResults)
       IN  /\ results' = mergeResults(results, run.batchResults)
           /\ processedFiles' = done
           /\ runs' = [runs EXCEPT ![r] =
                [run EXCEPT !.stats.processedFiles = done, !.pc = "failed"]]
    /\ catchBlock(logged)
    /\ UNCHANGED <<searchTerms, searchOptions, totalFiles, currentPage,
                   matchText, matchOut, csv>>

\* A task of a batch whose Promise.all is already rejected, before or after
\* the handler's catch block has run: its extraction settles, its processing
\* fails and the log of its catch block throws; the rejection changes nothing.
LateRejection(r, k) ==
    /\ r \in 1..Len(runs)
    /\ runs[r].pc \in {"rejected", "failed"}
    /\ k \in runs[r].pending
    /\ runs[r].outcome[batchStartOf(runs[r].batchIndex) + k].status = "error"
    /\ runs' = [runs EXCEPT ![r].pending = @ \ {k}]
    /\ UNCHANGED <<searchTerms, searchOptions, results, isSearching, error,
                   processedFiles, totalFiles, currentPage, matchText, matchOut,
                   csv>>

\* ------------------------------------------------- search terms and options
\* handleSearchInput, Enter: the trimmed input is appended.
AddTerm(term) ==
    /\ trim(term) # <<>>
    /\ Len(searchTerms) < MaxTerms
    /\ searchTerms' = Append(searchTerms, trim(term))
    /\ UNCHANGED <<searchOptions, results, isSearching, error, processedFiles,
                   totalFiles, currentPage, runs, matchText, matchOut, csv>>

\* handleSearchInput, Backspace on an empty input: the last term goes.
RemoveLastTerm ==
    /\ Len(searchTerms) > 0
    /\ searchTerms' = SubSeq(searchTerms, 1, Len(searchTerms) - 1)
    /\ UNCHANGED <<searchOptions, results, isSearching, error, processedFiles,
                   totalFiles, currentPage, runs, matchText, matchOut, csv>>

removeSearchTerm(indexToRemove) ==
    /\ indexToRemove \in 0..(Len(searchTerms) - 1)
    /\ searchTerms' = SubSeq(searchTerms, 1, indexToRemove)
                      \o SubSeq(searchTerms, indexToRemove + 2, Len(searchTerms))
    /\ UNCHANGED <<searchOptions, results, isSearching, error, processedFiles,
                   totalFiles, currentPage, runs, matchText, matchOut, csv>>

SetMatchType(m) ==
    /\ searchOptions.matchType # m
    /\ searchOptions' = [searchOptions EXCEPT !.matchType = m]
    /\ UNCHANGED <<searchTerms, results, isSearching, error, processedFiles,
                   totalFiles, currentPage, runs, matchText, matchOut, csv>>

SetCaseSensitive(b) ==
    /\ searchOptions.caseSensitive # b
    /\ searchOptions' = [searchOptions EXCEPT !.caseSensitive = b]
    /\ UNCHANGED <<searchTerms, results, isSearching, error, processedFiles,
                   totalFiles, currentPage, runs, matchText, matchOut, csv>>

SetWholeWord(b) ==
    /\ searchOptions.wholeWord # b
    /\ searchOptions' = [searchOptions EXCEPT !.wholeWord = b]
    /\ UNCHANGED <<searchTerms, results, isSearching, error, processedFiles,
                   totalFiles, currentPage, runs, matchText, matchOut, csv>>

\* The pagination buttons: Previous, Next and the numbered pages on display.
handlePageChange(page) ==
    /\ Len(results) > 0
    /\ totalPages > 1
    /\ \/ page = currentPage - 1 /\ currentPage # 1
       \/ page = currentPage + 1 /\ currentPage # totalPages
       \/ /\ page \in 1..totalPages
          /\ \/ page - currentPage \in {-1, 0, 1}
             \/ page = 1
             \/ page = totalPages
    /\ page # currentPage
    /\ currentPage' = page
    /\ UNCHANGED <<searchTerms, searchOptions, results, isSearching, error,
                   processedFiles, totalFiles, runs, matchText, matchOut, csv>>

\* -------------------------------------------------------------------- render
\* What the page reports of a run, from the conditional blocks of the render:
\* the error banner (line 587), the progress bar (line 596), the results block
\* with its file count and its Export button (lines 615-632) and the
\* pagination controls (line 710). The cards inside the results block (lines
\* 635-706) show each record by itself, whatever the run's outcome.
reportsOf(err, searching, rs) ==
    [banner     |-> err,
     progress   |-> searching,
     list       |-> Len(rs) > 0,
     fileCount  |-> Len(rs),
     export     |-> Len(rs) > 0,
     pagination |-> ceilDiv(Len(rs), ITEMS_PER_PAGE) > 1]

\* --------------------------------------------------------------- downloadCSV
COMMA == ","
QUOTE == "\""

\* cells.join(sep)
RECURSIVE joinWith(_, _)
joinWith(cells, sep) ==
    IF cells = <<>> THEN <<>>
    ELSE IF Len(cells) = 1 THEN cells[1]
    ELSE cells[1] \o <<sep>> \o joinWith(Tail(cells), sep)

\* String(n) of a count: its decimal digits.
Digit(d) ==
    CASE d = 0 -> "0" [] d = 1 -> "1" [] d = 2 -> "2" [] d = 3 -> "3"
      [] d = 4 -> "4" [] d = 5 -> "5" [] d = 6 -> "6" [] d = 7 -> "7"
      [] d = 8 -> "8" [] OTHER -> "9"

RECURSIVE String(_)
String(n) ==
    IF n < 10 THEN <<Digit(n)>> ELSE Append(String(n \div 10), Digit(n % 10))

\* results.filter(result => result.matchCount > 0)
matchingResults(rs) == SelectSeq(rs, LAMBDA result : result.matchCount > 0)

headers(terms) ==
    <<<<"File Name">>, <<"File Path">>>> \o terms \o <<<<"Total Occurrences">>>>

\* result.matches.map(match => match.text).join(' ')
matchTextOf(result) ==
    joinWith([m \in 1..Len(result.matches) |-> result.matches[m].text], SP)

\* One term's count on the concatenated text of a file's matched lines.
termCountsOf(result, terms, opts) ==
    [t \in 1..Len(terms) |->
        MatchCountOf(matchTextOf(result), terms[t],
                     opts.wholeWord, ~opts.caseSensitive)]

rowOf(result, terms, opts) ==
    LET counts == termCountsOf(result, terms, opts)
    IN  <<result.fileName, result.filePath>>
        \o [t \in 1..Len(terms) |-> String(counts[t])]
        \o <<String(result.totalOccurrences)>>

\* cell.replace(/"/g, '""')
RECURSIVE doubleQuotes(_)
doubleQuotes(cell) ==
    IF cell = <<>> THEN <<>>
    ELSE (IF Head(cell) = QUOTE THEN <<QUOTE, QUOTE>> ELSE <<Head(cell)>>)
         \o doubleQuotes(Tail(cell))

quoted(cell) == <<QUOTE>> \o doubleQuotes(cell) \o <<QUOTE>>

rowLine(row) == joinWith([c \in 1..Len(row) |-> quoted(row[c])], COMMA)

\* The header line is joined as it is; the data rows are quoted cell by cell.
csvContent(rs, terms, opts) ==
    LET rows == [j \in 1..Len(matchingResults(rs)) |->
                    rowOf(matchingResults(rs)[j], terms, opts)]
    IN  joinWith(<<joinWith(headers(terms), COMMA)>>
                 \o [j \in 1..Len(rows) |-> rowLine(rows[j])], NL)

\* A term that is no pattern makes the first row's count throw.
downloadCSVThrows(rs, terms) ==
    /\ matchingResults(rs) # <<>>
    /\ \E t \in 1..Len(terms) : RegExpThrows(terms[t])

\* The Export CSV button, on display while the store is not empty.
downloadCSV ==
    /\ Len(results) > 0
    /\ ~csv.exported
    /\ csv' = [exported |-> TRUE,
                threw    |-> downloadCSVThrows(results, searchTerms),
                content  |-> IF downloadCSVThrows(results, searchTerms) THEN <<>>
                             ELSE csvContent(results, searchTerms, searchOptions),
                results  |-> results,
                searchTerms   |-> searchTerms,
                searchOptions |-> searchOptions]
    /\ UNCHANGED <<searchTerms, searchOptions, results, isSearching, error,
                   processedFiles, totalFiles, currentPage, runs, matchText,
                   matchOut>>

\* ------------------------------------------------------------------ inputs
TermPool == {<<"a">>, <<"a", "b">>, <<"(">>}

\* The terms typed before a folder is submitted: a word and a broken pattern.
TypedTerms == {<<"a">>, <<"(">>}

MatchTypes == {"all", "any"}

LinePool == {<<>>, <<" ", "a", "a">>, <<"A", "b">>}

RECURSIVE LineSeqs(_)
LineSeqs(n) ==
    IF n = 0 THEN {<<>>}
    ELSE LET shorter == LineSeqs(n - 1)
         IN  shorter \cup {Append(ls, l) : ls \in {x \in shorter : Len(x) = n - 1},
                                           l \in LinePool}

Texts == {join(ls) : ls \in LineSeqs(MaxLines) \ {<<>>}}

RECURSIVE TermSeqs(_)
TermSeqs(n) ==
    IF n = 0 THEN {<<>>}
    ELSE LET shorter == TermSeqs(n - 1)
         IN  shorter \cup {Append(ts, t) : ts \in {x \in shorter : Len(x) = n - 1},
                                           t \in TermPool}

T2 == <<"a", NL, "b", NL, "a", " ", "a">>
T1 == <<"A", " ", "b">>
T0 == <<"b">>

TextPlain == <<"text", "plain">>
Excel == <<"application", "vnd", "ms", "excel">>
ODT == <<"application", "vnd", "oasis", "opendocument", "text">>
PNG == <<"image", "png">>

KB == 1024

mkFile(stem, ext, type, size, readable, pages, content) ==
    [name |-> <<stem, ext>>, webkitRelativePath |-> <<"docs", stem, ext>>,
     type |-> type, size |-> size, readable |-> readable, pages |-> pages,
     content |-> content]

okPage(text) == [fails |-> FALSE, text |-> text]
badPage == [fails |-> TRUE, text |-> <<>>]

HeadPool ==
    { mkFile("a", "txt", TextPlain, KB, TRUE, <<>>, T2),
      mkFile("b", "md", <<>>, KB, TRUE, <<>>, T1),
      mkFile("c", "pdf", PDF, KB, TRUE, <<okPage(<<"a">>), badPage>>, <<>>),
      mkFile("d", "pdf", PDF, KB, FALSE, <<>>, <<>>),
      mkFile("e", "docx", DOCX, KB, TRUE, <<>>, T1),
      mkFile("f", "doc", DOC, KB, FALSE, <<>>, <<>>),
      mkFile("g", "pdf", PDF, SizeLimit + 1, TRUE, <<okPage(<<"a">>)>>, <<>>),
      mkFile("h", "xlsx", Excel, SizeLimit + 1, TRUE, <<>>, <<>>),
      mkFile("i", "txt", TextPlain, SizeLimit, TRUE, <<>>, T0),
      mkFile("j", "xlsx", Excel, KB, TRUE, <<>>, <<>>),
      mkFile("k", "odt", ODT, KB, TRUE, <<>>, T1),
      mkFile("l", "txt", TextPlain, KB, FALSE, <<>>, <<>>) }

TailPool ==
    { mkFile("y", "txt", TextPlain, KB, TRUE, <<>>, T2),
      mkFile("z", "pdf", PDF, KB, FALSE, <<>>, <<>>) }

padFile(k) == mkFile("img" \o ToString(k), "png", PNG, KB, TRUE, <<>>, <<>>)

PadCounts == {0} \cup {BATCH_SIZE - 2 + k : k \in 0..MaxPadExtra}

Optional(S) == {<<>>} \cup {<<x>> : x \in S}

\* The files that open a folder of several files.
LeadPool == {f \in HeadPool : f.name[1] \in {"a", "d", "g"}}

\* The submitted folders: one file of any kind, or a lead file, padding and a
\* tail file, so that a folder fills one batch exactly or spills into a second.
Folders ==
    {<<h>> : h \in HeadPool}
    \cup {h \o [k \in 1..n |-> padFile(k)] \o t :
            h \in Optional(LeadPool), n \in PadCounts, t \in Optional(TailPool)}

\* The export's inputs: a word, two words and a term with a comma; files whose
\* matched lines repeat a word, a file without a match and one in capitals.
ExportTerms == {<<"a">>, <<"a", SP, "a">>, <<"a", COMMA, "b">>}

X3 == <<"a", SP, "a", SP, "a", NL, "a", SP, "a", SP, "a">>

ExportFiles ==
    [x |-> mkFile("x", "txt", TextPlain, KB, TRUE, <<>>, X3),
     y |-> mkFile("y", "txt", TextPlain, KB, TRUE, <<>>, T0),
     z |-> mkFile("z", "md", <<>>, KB, TRUE, <<>>, T1)]

ExportFolders ==
    {<<ExportFiles.x, ExportFiles.y>>, <<ExportFiles.z, ExportFiles.x>>,
     <<ExportFiles.y>>}

\* PDFs of one to MaxPages pages, each page with a text or failing.
PagePool == {okPage(<<"a">>), okPage(<<"b">>), badPage}

RECURSIVE PageSeqs(_)
PageSeqs(n) ==
    IF n = 0 THEN {<<>>}
    ELSE LET shorter == PageSeqs(n - 1)
         IN  shorter \cup {Append(ps, pg) : ps \in {x \in shorter : Len(x) = n - 1},
                                            pg \in PagePool}

PdfFolders ==
    {<<mkFile("p", "pdf", PDF, KB, TRUE, pages, <<>>)>> :
        pages \in PageSeqs(MaxPages) \ {<<>>}}
    \cup {<<mkFile("q", "pdf", PDF, KB, FALSE, <<>>, <<>>)>>}

\* ------------------------------------------------------------ specification
NotCalled == [called |-> FALSE, threw |-> FALSE, matches |-> <<>>]

\* No file was downloaded yet. A download keeps, with its content, the store,
\* the terms and the options the callback closed over.
NotExported ==
    [exported |-> FALSE, threw |-> FALSE, content |-> <<>>, results |-> <<>>,
     searchTerms |-> <<>>, searchOptions |-> <<>>]

Init ==
    /\ searchTerms = <<>>
    /\ searchOptions = [matchType |-> "all", caseSensitive |-> FALSE,
                        wholeWord |-> FALSE]
    /\ results = <<>>
    /\ isSearching = FALSE
    /\ error = Null
    /\ processedFiles = 0
    /\ totalFiles = 0
    /\ currentPage = 1
    /\ runs = <<>>
    /\ matchText = <<>>
    /\ matchOut = NotCalled
    /\ csv = NotExported

\* The search is configured before the first folder is submitted.
Configuring == runs = <<>>

\* No earlier submission is still running.
Idle == \A r \in 1..Len(runs) : ~isActive(runs[r])

Next ==
    \/ \E t \in TypedTerms : Configuring /\ AddTerm(t)
    \/ Configuring /\ RemoveLastTerm
    \/ \E i \in 0..(MaxTerms - 1) : Configuring /\ removeSearchTerm(i)
    \/ \E f \in Folders : Idle /\ Submit(f)
    \/ \E r \in 1..Len(runs) : \E k \in runs[r].pending : Settle(r, k)
    \/ \E r \in 1..Len(runs) : BatchSettled(r)
    \/ \E r \in 1..Len(runs) : Resume(r)
    \/ \E p \in 1..(totalPages + 1) : handlePageChange(p)

Spec == Init /\ [][Next]_vars

\* The matcher on its own: the inputs are drawn, findMatches is applied.
InitMatch ==
    /\ searchTerms \in TermSeqs(MaxTerms) \ {<<>>}
    /\ searchOptions = [matchType |-> "all", caseSensitive |-> FALSE,
                        wholeWord |-> FALSE]
    /\ results = <<>>
    /\ isSearching = FALSE
    /\ error = Null
    /\ processedFiles = 0
    /\ totalFiles = 0
    /\ currentPage = 1
    /\ runs = <<>>
    /\ matchText \in Texts
    /\ matchOut = NotCalled
    /\ csv = NotExported

CallFindMatches ==
    /\ ~matchOut.called
    /\ matchOut' =
         IF findMatchesThrows(matchText, searchTerms, searchOptions)
         THEN [called |-> TRUE, threw |-> TRUE, matches |-> <<>>]
         ELSE [called |-> TRUE, threw |-> FALSE,
               matches |-> findMatches(matchText, searchTerms, searchOptions)]
    /\ UNCHANGED <<searchTerms, searchOptions, results, isSearching, error,
                   processedFiles, totalFiles, currentPage, runs, matchText, csv>>

\* The options are set before the call.
Uncalled == ~matchOut.called

NextMatch ==
    \/ \E m \in MatchTypes : Uncalled /\ SetMatchType(m)
    \/ \E b \in BOOLEAN : Uncalled /\ SetCaseSensitive(b)
    \/ \E b \in BOOLEAN : Uncalled /\ SetWholeWord(b)
    \/ CallFindMatches

SpecMatch == InitMatch /\ [][NextMatch]_vars

\* The matcher on lists of several terms, for the order of the terms.
InitOrder ==
    /\ searchTerms \in {ts \in TermSeqs(MaxTerms) : Len(ts) >= 2}
    /\ searchOptions = [matchType |-> "all", caseSensitive |-> FALSE,
                        wholeWord |-> FALSE]
    /\ results = <<>>
    /\ isSearching = FALSE
    /\ error = Null
    /\ processedFiles = 0
    /\ totalFiles = 0
    /\ currentPage = 1
    /\ runs = <<>>
    /\ matchText \in {join(ls) : ls \in LineSeqs(MaxOrderLines) \ {<<>>}}
    /\ matchOut = NotCalled
    /\ csv = NotExported

SpecOrder == InitOrder /\ [][NextMatch]_vars

\* The pipeline on one PDF.
NextPdf ==
    \/ \E t \in TypedTerms : Configuring /\ AddTerm(t)
    \/ \E f \in PdfFolders : Configuring /\ Submit(f)
    \/ \E r \in 1..Len(runs) : \E k \in runs[r].pending : Settle(r, k)
    \/ \E r \in 1..Len(runs) : BatchSettled(r)
    \/ \E r \in 1..Len(runs) : Resume(r)

SpecPdf == Init /\ [][NextPdf]_vars

\* The pipeline under its scheduling: every extraction settles (the claim's
\* assumption), and the continuation of Promise.all and the 100 ms timer are
\* run by the event loop once they are due.
SpecLive ==
    /\ Init
    /\ [][Next]_vars
    /\ WF_vars(\E r \in 1..Len(runs) : \E k \in runs[r].pending : Settle(r, k))
    /\ WF_vars(\E r \in 1..Len(runs) : BatchSettled(r))
    /\ WF_vars(\E r \in 1..Len(runs) : Resume(r))

\* The pipeline with a host whose calls may fail outside the per-file
\* isolation, on folders of one file and on folders of two batches. At a
\* launch the first task, the first two or the last reject. The log of the
\* handler's own catch block works: no host fails there.
FaultFolders ==
    {f \in Folders : Len(f) \in {1, BATCH_SIZE + 1}}

RejectSets(n) ==
    {K \in {{1}, {1, 2}, {n}} : K # {} /\ K \subseteq 1..n}

CatchLogs == {TRUE}

NextFault ==
    \/ \E t \in TypedTerms : Configuring /\ AddTerm(t)
    \/ Configuring /\ RemoveLastTerm
    \/ \E f \in FaultFolders : Idle /\ Submit(f)
    \/ \E f \in FaultFolders : \E K \in RejectSets(Len(batchOf(f, 0))) :
          Idle /\ SubmitRejected(f, K)
    \/ \E r \in 1..Len(runs) : \E k \in runs[r].pending : Settle(r, k)
    \/ \E r \in 1..Len(runs) : \E k \in runs[r].pending : SettleRejected(r, k)
    \/ \E r \in 1..Len(runs) : BatchSettled(r)
    \/ \E r \in 1..Len(runs) : \E logged \in CatchLogs : MergeFailure(r, logged)
    \/ \E r \in 1..Len(runs) : TimerRejected(r)
    \/ \E r \in 1..Len(runs) : Resume(r)
    \/ \E r \in 1..Len(runs) :
          \E K \in RejectSets(Len(batchOf(runs[r].files, runs[r].batchIndex + 1))) :
             ResumeRejected(r, K)
    \/ \E r \in 1..Len(runs) : \E logged \in CatchLogs : CatchFinally(r, logged)
    \/ \E r \in 1..Len(runs) : \E k \in runs[r].pending : LateRejection(r, k)

SpecFault == Init /\ [][NextFault]_vars

\* The export: one folder is searched, the terms and the options may change
\* before and after the run, and the store is downloaded once.
Editable == Idle /\ ~csv.exported

NextExport ==
    \/ \E t \in ExportTerms : Editable /\ AddTerm(t)
    \/ \E i \in 0..(MaxTerms - 1) : Editable /\ removeSearchTerm(i)
    \/ \E b \in BOOLEAN : Editable /\ SetCaseSensitive(b)
    \/ \E b \in BOOLEAN : Editable /\ SetWholeWord(b)
    \/ \E f \in ExportFolders : Configuring /\ Submit(f)
    \/ \E r \in 1..Len(runs) : \E k \in runs[r].pending : Settle(r, k)
    \/ \E r \in 1..Len(runs) : BatchSettled(r)
    \/ \E r \in 1..Len(runs) : Resume(r)
    \/ downloadCSV

SpecExport == Init /\ [][NextExport]_vars

\* Submissions that overlap: a new folder may be selected while earlier runs
\* are still going, up to MaxOverlap runs at once; the folders are small and
\* differ in their files, so that a record tells the run it comes from.
OverlapFolders ==
    {<<ExportFiles.x>>, <<ExportFiles.z, ExportFiles.y>>}

NextOverlap ==
    \/ \E t \in TypedTerms : Configuring /\ AddTerm(t)
    \/ \E f \in OverlapFolders :
          Len(activeRuns(runs)) < MaxOverlap /\ Submit(f)
    \/ \E r \in 1..Len(runs) : \E k \in runs[r].pending : Settle(r, k)
    \/ \E r \in 1..Len(runs) : BatchSettled(r)
    \/ \E r \in 1..Len(runs) : Resume(r)

SpecOverlap == Init /\ [][NextOverlap]_vars

\* ================================================================== claims
pathOf(file) ==
    IF file.webkitRelativePath # <<>> THEN file.webkitRelativePath ELSE file.name

recordsOf(file) == {k \in 1..Len(results) : results[k].filePath = pathOf(file)}

\* The one record of a file in the store.
recordOf(file) == results[CHOOSE k \in recordsOf(file) : TRUE]

malformed(term) == \E k \in 1..Len(term) : term[k] = "("

\* The ways one file's processing fails: too large, an extraction that fails,
\* or a term that is no pattern.
failsOn(file, terms) ==
    \/ file.size > SizeLimit
    \/ /\ route(file) # "unsupported"
       /\ \/ ~file.readable
          \/ \E t \in 1..Len(terms) : malformed(terms[t])

\* C1: when a run started by one folder submission ends, the store holds
\* exactly one record per submitted file: as many records as files, and for
\* every file one record, never none and never two.
C1_ExactlyOnce ==
    \A r \in 1..Len(runs) :
        (Len(runs) = 1 /\ runs[r].pc = "done") =>
            /\ Len(results) = Len(runs[r].files)
            /\ \A i \in 1..Len(runs[r].files) :
                 Cardinality(recordsOf(runs[r].files[i])) = 1

C1_Witness ==
    /\ Len(runs) = 1
    /\ runs[1].pc = "done"
    /\ Len(runs[1].files) > BATCH_SIZE
    /\ Len(results) = Len(runs[1].files)

\* C2: a file whose processing fails gets a record with status error and a
\* message, the other files merged so far have their records with the status
\* their own processing gives, and a run ends only after every batch was
\* merged.
C2_FaultIsolation ==
    \A r \in 1..Len(runs) :
        LET run == runs[r]
        IN  /\ run.pc = "done" => run.stats.processedFiles = Len(run.files)
            /\ \A i \in 1..run.stats.processedFiles :
                 /\ recordsOf(run.files[i]) # {}
                 /\ IF failsOn(run.files[i], run.terms)
                    THEN /\ recordOf(run.files[i]).status = "error"
                         /\ recordOf(run.files[i]).error # Undefined
                    ELSE recordOf(run.files[i]).status # "error"

\* A failing first file, its batch's other files and a later batch's file all
\* have their records.
C2_Witness ==
    /\ Len(runs) = 1
    /\ runs[1].pc = "done"
    /\ Len(runs[1].files) > BATCH_SIZE
    /\ failsOn(runs[1].files[1], runs[1].terms)
    /\ ~tooLarge(runs[1].files[1])
    /\ recordOf(runs[1].files[1]).status = "error"
    /\ recordOf(runs[1].files[2]).status = "unsupported"
    /\ recordOf(runs[1].files[Len(runs[1].files)]).matchCount > 0

\* C3: every record of the store has matchCount = |matches| and
\* totalOccurrences = the sum of its matches' occurrences.
C3_RecordCounts ==
    \A k \in 1..Len(results) :
        /\ results[k].matchCount = Len(results[k].matches)
        /\ results[k].totalOccurrences =
             SumSeq([m \in 1..Len(results[k].matches) |->
                       results[k].matches[m].occurrences])

C3_Witness ==
    \E k \in 1..Len(results) : \E j \in 1..Len(results) :
        /\ results[k].matchCount >= 2
        /\ results[k].totalOccurrences > results[k].matchCount
        /\ results[j].status = "error"

\* C4: the store is ordered by matchCount descending in every state.
C4_SortedDescending ==
    \A k \in 1..(Len(results) - 1) :
        results[k].matchCount >= results[k + 1].matchCount

\* A second batch's record with matches was merged ahead of the first batch's.
C4_Witness ==
    /\ Len(runs) = 1
    /\ Len(results) > BATCH_SIZE
    /\ results[1].filePath = pathOf(runs[1].files[Len(runs[1].files)])
    /\ results[1].matchCount > results[2].matchCount

\* C5: the files launched and not yet merged are exactly the current batch,
\* at most 50; a batch is launched only when all earlier files are merged, and
\* merged only when every task of it has settled.
C5_BatchBarrier ==
    \A r \in 1..Len(runs) :
        LET run == runs[r]
            merged == run.stats.processedFiles
        IN  /\ run.started - merged <= BATCH_SIZE
            /\ run.pc = "await" =>
                 /\ merged = run.batchIndex * BATCH_SIZE
                 /\ run.started = Min(merged + BATCH_SIZE, Len(run.files))
                 /\ Len(run.batchResults) = run.started - merged
            /\ run.pc \in {"pause", "done"} =>
                 /\ run.pending = {}
                 /\ merged = run.started
            /\ \A i \in run.extracted : i <= run.started

\* The second batch is in flight behind a full, merged first batch.
C5_Witness ==
    \E r \in 1..Len(runs) :
        /\ runs[r].pc = "await"
        /\ runs[r].batchIndex = 1
        /\ runs[r].pending # {}
        /\ runs[r].stats.processedFiles = BATCH_SIZE

\* ------------------------------------------------------ claims on findMatches
\* A term's count on a line of the text.
countOn(line, t) == TermCount(line, searchTerms[t], searchOptions)

lineDecision(line) ==
    IF searchOptions.matchType = "all"
    THEN \A t \in 1..Len(searchTerms) : countOn(line, t) > 0
    ELSE \E t \in 1..Len(searchTerms) : countOn(line, t) > 0

returned == matchOut.called /\ ~matchOut.threw

\* The records emitted for the 1-based line i.
recordsOfLine(i) ==
    {m \in 1..Len(matchOut.matches) : matchOut.matches[m].lineNumber = i}

\* C6: a line gets a MatchRecord iff, under "all", every term counts > 0 on it
\* and, under "any", at least one term does.
C6_LineDecision ==
    returned =>
        LET lines == split(matchText)
        IN  \A i \in 1..Len(lines) :
                Cardinality(recordsOfLine(i)) = IF lineDecision(lines[i]) THEN 1 ELSE 0

\* Under "all", a line with one of two terms is left out and a line with both
\* is emitted.
C6_Witness ==
    /\ returned
    /\ searchOptions.matchType = "all"
    /\ Len(searchTerms) = 2
    /\ LET lines == split(matchText)
       IN  /\ \E i \in 1..Len(lines) :
                /\ countOn(lines[i], 1) > 0
                /\ countOn(lines[i], 2) = 0
                /\ recordsOfLine(i) = {}
           /\ \E i \in 1..Len(lines) :
                /\ countOn(lines[i], 1) > 0
                /\ countOn(lines[i], 2) > 0
                /\ recordsOfLine(i) # {}

\* C7: a MatchRecord's occurrences is the sum, over the terms in list order and
\* with duplicates counted each time, of the term's count on the matched line.
C7_Occurrences ==
    returned =>
        LET lines == split(matchText)
        IN  \A m \in 1..Len(matchOut.matches) :
                matchOut.matches[m].occurrences =
                    SumSeq([t \in 1..Len(searchTerms) |->
                              countOn(lines[matchOut.matches[m].lineNumber], t)])

\* Under "any", a line with exactly one of two terms, hit more than once.
C7_Witness ==
    /\ returned
    /\ searchOptions.matchType = "any"
    /\ Len(searchTerms) = 2
    /\ LET lines == split(matchText)
       IN  \E m \in 1..Len(matchOut.matches) :
             LET line == lines[matchOut.matches[m].lineNumber]
             IN  /\ countOn(line, 1) >= 2
                 /\ countOn(line, 2) = 0
                 /\ matchOut.matches[m].occurrences = countOn(line, 1)

\* The context without its highlight markers (the texts hold no "*").
unmarked(context) == SelectSeq(context, LAMBDA c : c # STAR)

\* The lines max(0, i-2)..min(lastLine, i+2) around the 0-based line i.
windowOf(lines, i) ==
    SubSeq(lines, Max(0, i - 2) + 1, Min(Len(lines) - 1, i + 2) + 1)

\* C8 as stated: the context, markers aside, is exactly the window's lines
\* joined by their line breaks, blank edge lines included.
C8_ExactWindow ==
    returned =>
        LET lines == split(matchText)
        IN  \A m \in 1..Len(matchOut.matches) :
                unmarked(matchOut.matches[m].context) =
                    join(windowOf(lines, matchOut.matches[m].lineNumber - 1))

\* C8 amended: the context is the window's lines joined by line breaks, then
\* highlighted, then trimmed of leading and trailing whitespace.
C8_TrimmedWindow ==
    returned =>
        LET lines == split(matchText)
        IN  \A m \in 1..Len(matchOut.matches) :
                matchOut.matches[m].context =
                    trim(highlight(join(windowOf(lines, matchOut.matches[m].lineNumber - 1)),
                                   searchTerms, searchOptions))

\* A match in the middle of five lines whose window opens with a blank line,
\* which the context has lost.
C8_Witness ==
    /\ returned
    /\ LET lines == split(matchText)
       IN  /\ Len(lines) = 5
           /\ lines[1] = <<>>
           /\ \E m \in 1..Len(matchOut.matches) :
                /\ matchOut.matches[m].lineNumber = 3
                /\ unmarked(matchOut.matches[m].context) # join(windowOf(lines, 2))
                /\ unmarked(matchOut.matches[m].context) = trim(join(windowOf(lines, 2)))

\* ------------------------------------------------- claims on the type dispatch
\* The record of the run's file i once its task has been launched: in the
\* batch while it waits for the merge, in the store afterwards.
taskRecord(run, i) ==
    IF i > run.stats.processedFiles
    THEN run.batchResults[i - run.stats.processedFiles]
    ELSE recordOf(run.files[i])

\* C9: a file above 50 MiB gets status error with the size-limit message,
\* whatever its type, and no extraction is started for it.
C9_SizeGuard ==
    \A r \in 1..Len(runs) :
        \A i \in 1..runs[r].started :
            runs[r].files[i].size > SizeLimit =>
                /\ i \notin runs[r].extracted
                /\ taskRecord(runs[r], i).status = "error"
                /\ taskRecord(runs[r], i).error = "File too large (>50MB)"

\* An oversize file of a type that would be unsupported is in the store as an
\* error, and a file of exactly 50 MiB was extracted.
C9_Witness ==
    \E r \in 1..Len(runs) : \E i \in 1..runs[r].stats.processedFiles :
        /\ runs[r].files[i].size > SizeLimit
        /\ route(runs[r].files[i]) = "unsupported"
        /\ recordOf(runs[r].files[i]).status = "error"

\* A text MIME type: text/...
isTextMime(type) == Len(type) >= 1 /\ type[1] = "text"

\* Within the size limit, and by type and name none of PDF, Word or text.
noneOfTheFormats(file) ==
    /\ file.size <= SizeLimit
    /\ file.type \notin {PDF, DOCX, DOC}
    /\ ~isTextMime(file.type)
    /\ file.name[Len(file.name)] \notin {"txt", "md"}

\* C10: such a file gets status unsupported and no matches, adds 0 to the
\* total-matches statistic and nothing to the failed-files count.
C10_Unsupported ==
    \A r \in 1..Len(runs) :
        LET run == runs[r]
            merged == 1..run.stats.processedFiles
        IN  /\ \A i \in merged :
                 noneOfTheFormats(run.files[i]) =>
                     /\ recordOf(run.files[i]).status = "unsupported"
                     /\ recordOf(run.files[i]).matches = <<>>
                     /\ recordOf(run.files[i]).totalOccurrences = 0
            /\ run.pc \in {"pause", "done"} =>
                 /\ run.stats.failedFiles =
                      Cardinality({i \in merged :
                                     recordOf(run.files[i]).status = "error"})
                 /\ run.stats.unsupportedFiles =
                      Cardinality({i \in merged :
                                     recordOf(run.files[i]).status = "unsupported"})
                 /\ run.stats.totalMatches =
                      SumSeq([i \in merged |-> recordOf(run.files[i]).totalOccurrences])

\* --------------------------------------------------- claims on the CSV export
\* The records and fields a CSV reader finds in a content: commas and line
\* breaks separate outside double quotes, a doubled quote inside is a quote.
RECURSIVE csvScan(_, _, _, _, _)
csvScan(s, p, inQuotes, field, record) ==
    IF p > Len(s) THEN <<Append(record, field)>>
    ELSE IF inQuotes
         THEN IF s[p] = QUOTE
              THEN IF p < Len(s) /\ s[p + 1] = QUOTE
                   THEN csvScan(s, p + 2, TRUE, Append(field, QUOTE), record)
                   ELSE csvScan(s, p + 1, FALSE, field, record)
              ELSE csvScan(s, p + 1, TRUE, Append(field, s[p]), record)
         ELSE IF s[p] = QUOTE THEN csvScan(s, p + 1, TRUE, field, record)
         ELSE IF s[p] = COMMA
              THEN csvScan(s, p + 1, FALSE, <<>>, Append(record, field))
         ELSE IF s[p] = NL
              THEN <<Append(record, field)>> \o csvScan(s, p + 1, FALSE, <<>>, <<>>)
         ELSE csvScan(s, p + 1, FALSE, Append(field, s[p]), record)

csvRecords(content) == csvScan(content, 1, FALSE, <<>>, <<>>)

\* A file was downloaded.
downloaded == csv.exported /\ ~csv.threw

\* The records of the store the download was made from, in store order.
exportedResults == matchingResults(csv.results)

\* C11: the downloaded CSV has a header of n+3 columns (name, path, the n terms
\* in list order, total), one data row per record with matchCount > 0, none for
\* the others, and n+3 cells in every data row.
C11_CsvShape ==
    csv.exported =>
        /\ ~csv.threw
        /\ LET recs == csvRecords(csv.content)
               n    == Len(csv.searchTerms)
           IN  /\ Len(recs[1]) = n + 3
               /\ recs[1] = headers(csv.searchTerms)
               /\ Len(recs) = 1 + Len(exportedResults)
               /\ \A j \in 1..Len(exportedResults) :
                    /\ Len(recs[j + 1]) = n + 3
                    /\ recs[j + 1][1] = exportedResults[j].fileName
                    /\ recs[j + 1][2] = exportedResults[j].filePath
               /\ \A k \in 1..Len(csv.results) :
                    csv.results[k].matchCount = 0 =>
                        \A j \in 2..Len(recs) :
                            recs[j][2] # csv.results[k].filePath

\* The number a cell of digits reads as.
DigitValue(c) ==
    CASE c = "0" -> 0 [] c = "1" -> 1 [] c = "2" -> 2 [] c = "3" -> 3
      [] c = "4" -> 4 [] c = "5" -> 5 [] c = "6" -> 6 [] c = "7" -> 7
      [] c = "8" -> 8 [] OTHER -> 9

RECURSIVE cellNumber(_)
cellNumber(cell) ==
    IF cell = <<>> THEN 0
    ELSE 10 * cellNumber(SubSeq(cell, 1, Len(cell) - 1)) + DigitValue(cell[Len(cell)])

\* The file of the searched folder a record was made from.
sourceOf(record) ==
    LET files == runs[1].files
    IN  files[CHOOSE k \in 1..Len(files) : pathOf(files[k]) = record.filePath]

\* What findMatches counted for a term over a record's matched lines: the
\* per-line counts on the lines of the file's text, added up.
matcherCount(record, term, opts) ==
    LET lines == split(fileText(sourceOf(record)).text)
    IN  SumSeq([m \in 1..Len(record.matches) |->
                  TermCount(lines[record.matches[m].lineNumber], term, opts)])

\* The download uses the terms and the options the run searched with.
sameSearch ==
    /\ runs # <<>>
    /\ csv.searchTerms = runs[1].terms
    /\ csv.searchOptions = runs[1].opts

\* C12: in a download made with the terms and options of the run, every term
\* column of every row is the sum of the counts findMatches computed for that
\* term on the file's matched lines, and a row's term columns add up to its
\* total-occurrences column.
C12_CountsAgree ==
    (downloaded /\ sameSearch) =>
        LET recs == csvRecords(csv.content)
            n    == Len(csv.searchTerms)
        IN  \A j \in 1..Len(exportedResults) :
                /\ \A t \in 1..n :
                     cellNumber(recs[j + 1][2 + t])
                       = matcherCount(exportedResults[j], csv.searchTerms[t],
                                      csv.searchOptions)
                /\ SumSeq([t \in 1..n |-> cellNumber(recs[j + 1][2 + t])])
                     = cellNumber(recs[j + 1][n + 3])

\* ------------------------------------------------ claims on the end of a run
\* The last submitted run and how it ended.
lastRun == runs[Len(runs)]

completed == runs # <<>> /\ lastRun.pc = "done"

noMatch == \A k \in 1..Len(results) : results[k].matchCount = 0

\* The store of the run, had its first file matched on one line of its text.
foundIn(rs) == [rs EXCEPT ![1].matchCount = 1, ![1].totalOccurrences = 1]

\* C13: at the end of a completed run whose records all have matchCount = 0,
\* the page reports a condition of its own: what it reports of the run differs
\* from what it reports of the same run had it found a match, and from what it
\* reports in the run-level error state.
C13_NoResults ==
    (completed /\ Len(results) > 0 /\ noMatch) =>
        /\ reportsOf(error, isSearching, results)
             # reportsOf(error, isSearching, foundIn(results))
        /\ reportsOf(error, isSearching, results)
             # reportsOf(GenericError, isSearching, results)

\* C14: once the handler has caught a failure that escaped the per-file
\* isolation, the generic error is set, the searching flag is cleared and the
\* records merged by the earlier batches are all in the store, once each; and
\* from the failure on the run starts no further batch and merges nothing:
\* the tasks still going of the batch that failed change neither the store
\* nor the progress.
C14_RunFailure ==
    /\ [](\A r \in 1..Len(runs) :
            (runs[r].pc = "failed" =>
                /\ error = GenericError
                /\ ~isSearching
                /\ runs[r].started = batchEndOf(runs[r].batchIndex, Len(runs[r].files))
                /\ Len(results) = runs[r].stats.processedFiles
                /\ \A i \in 1..runs[r].stats.processedFiles :
                     Cardinality(recordsOf(runs[r].files[i])) = 1))
    /\ [][\A r \in 1..Len(runs) :
            ((/\ runs[r].pc \in {"rejected", "failed"}
              /\ r <= Len(runs')
              /\ runs'[r].pc \in {runs[r].pc, "failed"}) =>
                /\ runs'[r].started = runs[r].started
                /\ runs'[r].batchIndex = runs[r].batchIndex
                /\ results' = results
                /\ processedFiles' = processedFiles)]_vars

\* A run of two batches failed while its second batch was awaited, and the
\* handler has caught the failure: the fifty records of the first batch stay,
\* the second batch is never merged.
C14_Witness ==
    /\ runs # <<>>
    /\ lastRun.pc = "failed"
    /\ lastRun.batchIndex = 1
    /\ lastRun.started > BATCH_SIZE
    /\ lastRun.stats.processedFiles = BATCH_SIZE
    /\ Len(results) = BATCH_SIZE
    /\ error = GenericError
    /\ ~isSearching

\* A run was started and is not over.
running == runs # <<>> /\ isActive(lastRun)

\* The run reached its end with a record for every file.
ranToEnd ==
    /\ completed
    /\ Len(results) = Len(lastRun.files)
    /\ \A i \in 1..Len(lastRun.files) : recordsOf(lastRun.files[i]) # {}
    /\ processedFiles = totalFiles
    /\ ~isSearching

\* C15: a started run always runs to its end - every file with a record,
\* processedFiles = totalFiles, the searching flag cleared - given that every
\* extraction settles.
C15_RunsToEnd == running ~> ranToEnd

\* A run of two batches is at its end.
C15_Witness ==
    /\ ranToEnd
    /\ Len(lastRun.files) > BATCH_SIZE
    /\ lastRun.batchIndex = 1

\* ------------------------------------------------- claims on the shared state
\* A per-file task of run r takes its step.
taskStep(r) == \E k \in runs[r].pending : Settle(r, k)

\* The step is the merge of run r's settled batch.
mergeStep(r) ==
    /\ runs[r].pc = "await"
    /\ runs[r].pending = {}
    /\ runs'[r].pc = "pause"
    /\ results' = mergeResults(results, runs[r].batchResults)

\* The slots of the batch's result array other than the slots in ks.
otherSlots(run, ks) == {k \in 1..Len(run.batchResults) : k \notin ks}

\* C16 as stated: a per-file task writes nothing that other tasks share - not
\* the store, not the run's statistics - and the store is written only by the
\* coordinating path, once the batch has settled.
C16_NoSharedWrites ==
    /\ [][\A r \in 1..Len(runs) :
            taskStep(r) => /\ results' = results
                           /\ runs'[r].stats = runs[r].stats]_vars
    /\ [][(results' # results /\ results' # <<>>) =>
            \E r \in 1..Len(runs) : mergeStep(r)]_vars

\* C16: a per-file task writes its own slot of the batch's result array and,
\* of the state it shares, only the run's statistics counters, each by one
\* increment; it never writes the store, the progress counters or another
\* task's slot. The store is written by the coordinating path alone: emptied
\* by a submission, merged into once per batch after the batch has settled.
C16_TaskWrites ==
    /\ [][\A r \in 1..Len(runs) :
            taskStep(r) =>
              /\ results' = results
              /\ processedFiles' = processedFiles
              /\ isSearching' = isSearching
              /\ \E k \in runs[r].pending :
                   /\ runs'[r].pending = runs[r].pending \ {k}
                   /\ \A j \in otherSlots(runs[r], {k}) :
                        runs'[r].batchResults[j] = runs[r].batchResults[j]
              /\ runs'[r].stats.processedFiles = runs[r].stats.processedFiles
              /\ runs'[r].stats.successfulFiles + runs'[r].stats.failedFiles
                   = runs[r].stats.successfulFiles + runs[r].stats.failedFiles + 1]_vars
    /\ [][(results' # results /\ results' # <<>>) =>
            \E r \in 1..Len(runs) : mergeStep(r)]_vars

\* Of a batch with several extractions one task has returned and counted
\* itself, the others are still out, and the store is still empty.
C16_Witness ==
    /\ runs # <<>>
    /\ lastRun.pc = "await"
    /\ lastRun.pending # {}
    /\ lastRun.stats.successfulFiles + lastRun.stats.failedFiles > 0
    /\ Len(lastRun.batchResults) > Cardinality(lastRun.pending) + 1
    /\ results = <<>>

\* ------------------------------------------------- claims on the page view
\* The pages first..last of the store, one after the other.
RECURSIVE pagesFrom(_, _)
pagesFrom(first, last) ==
    IF first > last THEN <<>>
    ELSE pageOf(results, first) \o pagesFrom(first + 1, last)

\* The store positions (1-based) page p covers.
positionsOf(p) ==
    {k \in 1..Len(results) :
        (p - 1) * ITEMS_PER_PAGE < k /\ k <= p * ITEMS_PER_PAGE}

pageChanged == \E p \in 1..(totalPages + 1) : handlePageChange(p)

\* C17: every page p of 1..ceil(|results|/50) is exactly the records at the
\* sorted positions (p-1)*50 .. p*50-1, in order; the pages put one after the
\* other are the whole store; and a page change leaves the store, its order,
\* the progress counters and the runs' statistics as they are.
C17_PageView ==
    /\ [](/\ \A p \in 1..totalPages :
               /\ Len(pageOf(results, p)) = Cardinality(positionsOf(p))
               /\ \A k \in 1..Len(pageOf(results, p)) :
                    pageOf(results, p)[k] = results[(p - 1) * ITEMS_PER_PAGE + k]
           /\ pagesFrom(1, totalPages) = results
           /\ (currentPage \in 1..totalPages =>
                 paginatedResults = pageOf(results, currentPage)))
    /\ [][pageChanged => /\ results' = results
                          /\ processedFiles' = processedFiles
                          /\ totalFiles' = totalFiles
                          /\ runs' = runs]_vars

\* The second page of a store of fifty-one records is on display.
C17_Witness ==
    /\ Len(results) > ITEMS_PER_PAGE
    /\ currentPage = 2
    /\ Len(paginatedResults) = Len(results) - ITEMS_PER_PAGE

\* ------------------------------------------------ claims on the term order
\* The term list in the order f, a permutation of its positions.
permuted(terms, f) == [i \in 1..Len(terms) |-> terms[f[i]]]

\* What the claim compares of a match: its line, the line's text, its count.
outcomeOf(matches) ==
    [m \in 1..Len(matches) |->
        <<matches[m].lineNumber, matches[m].text, matches[m].occurrences>>]

\* C18: findMatches on any permutation of the term list fails or returns just
\* as on the list itself, and returns the same matched line numbers, the same
\* line texts and the same occurrences per matched line.
C18_TermOrder ==
    matchOut.called =>
        \A f \in Permutations(1..Len(searchTerms)) :
            LET terms == permuted(searchTerms, f)
            IN  /\ findMatchesThrows(matchText, terms, searchOptions) = matchOut.threw
                /\ ~matchOut.threw =>
                     outcomeOf(findMatches(matchText, terms, searchOptions))
                       = outcomeOf(matchOut.matches)

\* Two different terms matched a line, and the order of the terms shows in
\* the highlighted context, the one field the claim does not speak of.
C18_Witness ==
    /\ returned
    /\ Len(searchTerms) >= 2
    /\ searchTerms[1] # searchTerms[2]
    /\ matchOut.matches # <<>>
    /\ \E f \in Permutations(1..Len(searchTerms)) :
         /\ permuted(searchTerms, f) # searchTerms
         /\ findMatches(matchText, permuted(searchTerms, f), searchOptions)
              # matchOut.matches

\* --------------------------------------------- claims on the merged records
\* C19: a batch merge keeps every record that was in the store, with all its
\* fields as they were, and adds the batch's records: the store grows by the
\* batch and nothing in it is dropped or changed, only moved.
C19_MergedReadOnly ==
    [][\A r \in 1..Len(runs) :
          mergeStep(r) =>
            /\ Len(results') = Len(results) + Len(runs[r].batchResults)
            /\ \A k \in 1..Len(results) :
                 \E j \in 1..Len(results') : results'[j] = results[k]
            /\ \A k \in 1..Len(runs[r].batchResults) :
                 \E j \in 1..Len(results') : results'[j] = runs[r].batchResults[k]]_vars

\* The second batch was merged into a store of fifty records, and one of its
\* records went to the top.
C19_Witness ==
    /\ runs # <<>>
    /\ lastRun.batchIndex = 1
    /\ lastRun.pc = "pause"
    /\ Len(results) > BATCH_SIZE
    /\ results[1].filePath = pathOf(lastRun.files[Len(lastRun.files)])
    /\ \A i \in 1..BATCH_SIZE : recordsOf(lastRun.files[i]) # {}

\* ------------------------------------------------ claims on the PDF pages
\* The chunks of an extracted text, which blank lines separate.
RECURSIVE chunksFrom(_, _)
chunksFrom(text, p) ==
    LET breaks == {q \in p..(Len(text) - 1) : text[q] = NL /\ text[q + 1] = NL}
    IN  IF breaks = {} THEN <<SubSeq(text, p, Len(text))>>
        ELSE LET q == CHOOSE b \in breaks : \A other \in breaks : b <= other
             IN  <<SubSeq(text, p, q - 1)>> \o chunksFrom(text, q + 2)

chunksOf(text) == chunksFrom(text, 1)

\* What the text holds for page i: its header and text, or the placeholder.
pageHeader(i) == <<"P", "a", "g", "e", " ", ToString(i), ":">>

placeholder ==
    <<" ", "[", "E", "r", "r", "o", "r", " ", "e", "x", "t", "r", "a", "c", "t",
      "i", "n", "g", " ", "t", "e", "x", "t", "]">>

\* The PDF of the run, if its document loads.
loadedPdf ==
    /\ runs # <<>>
    /\ Len(lastRun.files) = 1
    /\ route(lastRun.files[1]) = "pdf"
    /\ lastRun.files[1].readable

\* C20: of a PDF that loads, the extraction succeeds whatever pages fail; the
\* text holds one chunk per page in page order, the placeholder for each
\* failing page and the page's own text for every other; and the file's
\* record is an error only if a term is no pattern.
C20_PageIsolation ==
    loadedPdf =>
        LET file   == lastRun.files[1]
            got    == extractTextFromPDF(file)
            chunks == chunksOf(got.text)
        IN  /\ got.ok
            /\ Len(chunks) = Len(file.pages)
            /\ \A i \in 1..Len(file.pages) :
                 chunks[i] = IF file.pages[i].fails
                             THEN pageHeader(i) \o placeholder
                             ELSE pageHeader(i) \o <<NL>> \o file.pages[i].text
            /\ \A k \in 1..Len(results) :
                 results[k].status = "error" =>
                     \E t \in 1..Len(lastRun.terms) : malformed(lastRun.terms[t])

\* A PDF whose middle page fails was searched: its record is a success with
\* matches on the pages before and after.
C20_Witness ==
    /\ loadedPdf
    /\ Len(lastRun.files[1].pages) = 3
    /\ ~lastRun.files[1].pages[1].fails
    /\ lastRun.files[1].pages[2].fails
    /\ ~lastRun.files[1].pages[3].fails
    /\ Len(results) = 1
    /\ results[1].status = "success"
    /\ \E m \in 1..Len(results[1].matches) : results[1].matches[m].lineNumber > 5

\* ------------------------------------------- claims on overlapping submissions
\* The records the most recently submitted run produces, one per file.
producedBy(run) == {run.outcome[i] : i \in 1..Len(run.files)}

\* C21: in every reachable state, also when a folder is submitted while an
\* earlier run is still going, the store holds only records of the most
\* recently submitted run, and no more of them than that run has files.
C21_OnlyLatestRun ==
    runs # <<>> =>
        /\ \A k \in 1..Len(results) : results[k] \in producedBy(lastRun)
        /\ Len(results) <= Len(lastRun.files)

\* C22: in every reachable state the progress counters agree with the store:
\* 0 <= processedFiles <= totalFiles, and processedFiles is the number of
\* records in the store.
C22_ProgressCounters ==
    /\ 0 <= processedFiles
    /\ processedFiles <= totalFiles
    /\ processedFiles = Len(results)

\* A run is still going and has files whose record was not merged.
unmerged(run) == isActive(run) /\ run.stats.processedFiles < Len(run.files)

\* C23: in every reachable state, the searching flag is set while some
\* submitted run still has files without a merged record.
C23_SearchingFlag ==
    (\E r \in 1..Len(runs) : unmerged(runs[r])) => isSearching

\* ------------------------------------------------- claims on the current page
\* C24: in every reachable state with a store that is not empty, the current
\* page is one of the store's pages, 1 <= currentPage <= ceil(|results| / 50),
\* and the page on display holds at least one record.
C24_ValidPage ==
    Len(results) > 0 =>
        /\ 1 <= currentPage
        /\ currentPage <= totalPages
        /\ paginatedResults # <<>>

\* ------------------------------------------------ claims on a file's record
\* The records of the program: those of the store and those of the tasks.
allRecords ==
    {results[k] : k \in 1..Len(results)}
    \cup UNION {{runs[r].batchResults[k] : k \in 1..Len(runs[r].batchResults)} :
                  r \in 1..Len(runs)}

\* C25: a record with status error or unsupported has no matches, matchCount 0,
\* totalOccurrences 0 and an error message; a record with status success has
\* no error message. A failure in the middle of the matching leaves no match
\* in the record.
C25_StatusContent ==
    \A rec \in allRecords :
        /\ rec.status \in {"success", "error", "unsupported"}
        /\ rec.status \in {"error", "unsupported"} =>
              /\ rec.matches = <<>>
              /\ rec.matchCount = 0
              /\ rec.totalOccurrences = 0
              /\ rec.error \notin {Undefined, Null, ""}
        /\ rec.status = "success" => rec.error = Undefined

\* The store holds the record of a text file with lines that hold the first
\* term, failed by a second term that is no pattern, next to a record of each
\* other status.
C25_Witness ==
    /\ runs # <<>>
    /\ Len(lastRun.terms) = 2
    /\ ~malformed(lastRun.terms[1])
    /\ malformed(lastRun.terms[2])
    /\ \E i \in 1..Len(lastRun.files) :
          LET file == lastRun.files[i]
          IN  /\ route(file) = "text"
              /\ file.readable
              /\ findMatches(file.content, <<lastRun.terms[1]>>, lastRun.opts) # <<>>
              /\ recordsOf(file) # {}
              /\ recordOf(file).status = "error"
    /\ \E k \in 1..Len(results) : results[k].status = "unsupported"

====
